---------------------------- MODULE Spec2Model ----------------------------
(***************************************************************************)
(* A model of pkg/iforest (forest.go): the Options defaulting, the         *)
(* parallel Fit, BuildTree, Score and Predict of an IsolationForest.       *)
(*                                                                         *)
(* Real numbers are fixed point.  Thresholds, proportions, path lengths    *)
(* and scores are in thousandths (Milli); a split value is in units of     *)
(* 1/Float64Steps of a feature value, which keeps                          *)
(* rand.Float64()*(max-min)+min exact for the draws the model makes.       *)
(* Sequences are 1-based where Go's slices are 0-based: slot i of the     *)
(* model is index i-1 of the code.                                         *)
(***************************************************************************)
EXTENDS Integers, Sequences, FiniteSets, TLC

VARIABLES
    Options,      \* f.Options after construction (the embedded *Options)
    optionsIn,    \* the Options value the caller handed to NewWithOptions
    nDefaulted,   \* how many times SetDefaultValues ran on Options
    Trees,        \* f.Trees
    pc,           \* where the caller is
    matrix,       \* the samples argument of the running Fit
    fitI,         \* Fit's loop variable i
    tasks,        \* the goroutines of the running Fit, by index+1
    wg,           \* the WaitGroup's counter
    rng,          \* position of the process-wide math/rand source
    fitCount,     \* number of Fit calls begun
    builtBy,      \* per slot: the Fit call whose task wrote it (0: none)
    slotWrites,   \* per slot: writes during the running Fit
    query,        \* the samples argument of the last Score/Predict/BuildTree
    scores,       \* Predict's local scores (first scoring pass)
    scores2,      \* the scores of Predict's second pass (Proportion)
    threshold,    \* Predict's local threshold
    ret,          \* what the last call returned to the caller
    snapshot      \* Options and Trees when the running Predict was entered

vars == <<Options, optionsIn, nDefaulted, Trees, pc, matrix, fitI, tasks, wg,
          rng, fitCount, builtBy, slotWrites, query, scores, scores2,
          threshold, ret, snapshot>>

----------------------------------------------------------------------------
(* Bounds of the model.                                                    *)

MaxNumTrees == 2
MaxSampleSize == 2
MaxDepthBound == 2
MaxValue == 1
MaxRows == 2
MaxQueryRows == 2
MaxTreeRows == 3
MaxFeatures == 2
Float64Steps == 2
RngPeriod == 3
MaxFits == 2
MaxDefaulting == 2

----------------------------------------------------------------------------
(* Numbers.                                                                *)

Milli == 10 * 100

\* A float64 NaN; every ordered comparison with it is false.
NaN == 0 - 1

IsNaN(x) == x = NaN

\* Go's x >= y on float64.
FloatGE(x, y) == ~IsNaN(x) /\ ~IsNaN(y) /\ x >= y

RECURSIVE Pow2(_)
Pow2(k) == IF k <= 0 THEN 1 ELSE 2 * Pow2(k - 1)

\* int(math.Ceil(math.Log2(float64(n)))) for n >= 1.
RECURSIVE CeilLog2From(_, _)
CeilLog2From(n, k) == IF Pow2(k) >= n THEN k ELSE CeilLog2From(n, k + 1)

CeilLog2(n) == CeilLog2From(n, 0)

----------------------------------------------------------------------------
(* Options.                                                                *)

defaultNumTrees == 100
defaultSampleSize == 256
defaultScoreThreshold == 600

DetectionTypeThreshold == "threshold"
DetectionTypeProportion == "proportion"
defaultDetectionType == DetectionTypeThreshold

\* The zero value of the Options struct.
ZeroOptions ==
    [DetectionType |-> "", Threshold |-> 0, Proportion |-> 0,
     NumTrees |-> 0, SampleSize |-> 0, MaxDepth |-> 0]

\* A mutation of DefaultMaxDepth: the zero test is missing, so the depth is
\* derived from SampleSize even when the caller set one.
DefaultMaxDepthAlways(maxDepth, sampleSize) == CeilLog2(sampleSize)

\* if o.MaxDepth == 0 { o.MaxDepth = int(math.Ceil(math.Log2(float64(o.SampleSize)))) }
DefaultMaxDepth(maxDepth, sampleSize) ==
    IF maxDepth = 0 THEN CeilLog2(sampleSize) ELSE maxDepth

\* The statements run in the code's order: MaxDepth reads the SampleSize
\* the statement before it may have set.
SetDefaultValues(o) ==
    LET o1 == IF o.DetectionType = ""
              THEN [o EXCEPT !.DetectionType = defaultDetectionType] ELSE o
        o2 == IF o1.Threshold = 0
              THEN [o1 EXCEPT !.Threshold = defaultScoreThreshold] ELSE o1
        o3 == IF o2.NumTrees = 0
              THEN [o2 EXCEPT !.NumTrees = defaultNumTrees] ELSE o2
        o4 == IF o3.SampleSize = 0
              THEN [o3 EXCEPT !.SampleSize = defaultSampleSize] ELSE o3
    IN  [o4 EXCEPT !.MaxDepth = DefaultMaxDepth(o4.MaxDepth, o4.SampleSize)]

\* Every Options value a caller may hand over: each field unset (zero) or
\* set, DetectionType also to a string that names no policy.
RawOptions ==
    [DetectionType : {"", DetectionTypeThreshold, DetectionTypeProportion, "bogus"},
     Threshold : {0, Milli \div 2, defaultScoreThreshold},
     Proportion : {0, Milli \div 4, Milli \div 2},
     NumTrees : 0..MaxNumTrees,
     SampleSize : 0..(MaxSampleSize + 1),
     MaxDepth : 0..MaxDepthBound]

\* The Options the forests of the model are built with: NumTrees and
\* SampleSize set by the caller (the defaults, 100 and 256, are out of the
\* model's reach) and a positive Proportion.
CallerOptions ==
    {o \in RawOptions :
        /\ o.NumTrees >= 1
        /\ o.SampleSize \in 1..MaxSampleSize
        /\ o.Proportion = Milli \div 4
        /\ o.Threshold # defaultScoreThreshold
        /\ o.DetectionType # DetectionTypeThreshold}

NoReturn == [op |-> "none", val |-> <<>>]

Nil == <<>>

Init ==
    /\ Options = ZeroOptions
    /\ optionsIn = ZeroOptions
    /\ nDefaulted = 0
    /\ Trees = Nil
    /\ pc = "start"
    /\ matrix = <<>>
    /\ fitI = 0
    /\ tasks = <<>>
    /\ wg = 0
    /\ rng = 0
    /\ fitCount = 0
    /\ builtBy = <<>>
    /\ slotWrites = <<>>
    /\ query = <<>>
    /\ scores = <<>>
    /\ scores2 = <<>>
    /\ threshold = 0
    /\ ret = NoReturn
    /\ snapshot = [Options |-> ZeroOptions, Trees |-> Nil]

fitVars == <<Trees, matrix, fitI, tasks, wg, rng, fitCount, builtBy, slotWrites>>
callVars == <<query, scores, scores2, threshold, ret, snapshot>>

\* func NewWithOptions(options Options) *IsolationForest
NewWithOptions(options) ==
    /\ pc = "start"
    /\ optionsIn' = options
    /\ Options' = SetDefaultValues(options)
    /\ nDefaulted' = 1
    /\ pc' = "idle"
    /\ UNCHANGED <<fitVars, callVars>>

\* func New() *IsolationForest
New ==
    /\ pc = "start"
    /\ optionsIn' = ZeroOptions
    /\ Options' = SetDefaultValues(ZeroOptions)
    /\ nDefaulted' = 1
    /\ pc' = "idle"
    /\ UNCHANGED <<fitVars, callVars>>

\* The caller runs f.SetDefaultValues() on the forest's Options again.
CallSetDefaultValues ==
    /\ pc = "idle"
    /\ nDefaulted < MaxDefaulting
    /\ Options' = SetDefaultValues(Options)
    /\ nDefaulted' = nDefaulted + 1
    /\ UNCHANGED <<optionsIn, pc, fitVars, callVars>>

NextOptions ==
    \/ New
    \/ \E options \in RawOptions : NewWithOptions(options)
    \/ CallSetDefaultValues

SpecOptions == Init /\ [][NextOptions]_vars

\* The fields SetDefaultValues may touch, each with its zero value.
KeepsCallerFields(before, after) ==
    /\ before.DetectionType # "" => after.DetectionType = before.DetectionType
    /\ before.Threshold # 0 => after.Threshold = before.Threshold
    /\ before.NumTrees # 0 => after.NumTrees = before.NumTrees
    /\ before.SampleSize # 0 => after.SampleSize = before.SampleSize
    /\ before.MaxDepth # 0 => after.MaxDepth = before.MaxDepth
    /\ after.Proportion = before.Proportion

\* C7: SetDefaultValues is idempotent and touches only unset fields.  A
\* second (and any later) application of SetDefaultValues leaves Options
\* exactly as the first left them, and after any application every field the
\* caller set to a non-zero value, and Proportion always, still has the
\* caller's value.
C7_SetDefaultValuesIdempotent ==
    [][/\ nDefaulted' >= 2 => Options' = Options
       /\ nDefaulted' >= 1 => KeepsCallerFields(optionsIn', Options')]_vars

\* A forest defaulted twice whose caller set NumTrees and SampleSize = 1 and
\* left MaxDepth unset: the default depth, ceil(log2(1)), is 0 again, so the
\* zero test fires on the second application too.
C7_Witness ==
    /\ nDefaulted = 2
    /\ optionsIn.SampleSize = 1 /\ optionsIn.MaxDepth = 0
    /\ optionsIn.NumTrees = 2 /\ optionsIn.Threshold = 0
    /\ Options.NumTrees = 2 /\ Options.MaxDepth = 0
    /\ Options.Threshold = defaultScoreThreshold

----------------------------------------------------------------------------
(* Matrices and the numeric utilities BuildTree calls.                     *)

Vectors(numFeatures, maxValue) == [1..numFeatures -> 0..maxValue]

\* Every matrix of lo..hi rows of numFeatures features.
Matrices(lo, hi, numFeatures, maxValue) ==
    UNION {[1..n -> Vectors(numFeatures, maxValue)] : n \in lo..hi}

\* Column(matrix, index): the values at a 0-based feature index, row by row.
Column(samples, index) == [r \in 1..Len(samples) |-> samples[r][index + 1]]

RECURSIVE SeqMin(_)
SeqMin(s) ==
    IF Len(s) = 1 THEN s[1]
    ELSE LET m == SeqMin(Tail(s)) IN IF s[1] < m THEN s[1] ELSE m

RECURSIVE SeqMax(_)
SeqMax(s) ==
    IF Len(s) = 1 THEN s[1]
    ELSE LET m == SeqMax(Tail(s)) IN IF s[1] > m THEN s[1] ELSE m

\* MinMax(sequence) of a non-empty sequence.
MinMax(s) == <<SeqMin(s), SeqMax(s)>>

\* Sample(matrix, k): every outcome of k independent uniform draws of a row,
\* with replacement.
Sample(samples, k) ==
    {[j \in 1..k |-> samples[pick[j]]] : pick \in [1..k -> 1..Len(samples)]}

\* The process-wide source after n more draws.
Drawn(r, n) == (r + n) % RngPeriod

----------------------------------------------------------------------------
(* TreeNode and BuildTree.                                                 *)

\* &TreeNode{Size: size}; &TreeNode{} is Leaf(0).
Leaf(size) ==
    [Left |-> Nil, Right |-> Nil, SplitIndex |-> 0, SplitValue |-> 0,
     Size |-> size]

\* &TreeNode{Left: .., Right: .., SplitIndex: .., SplitValue: ..}
Internal(left, right, splitIndex, splitValue) ==
    [Left |-> left, Right |-> right, SplitIndex |-> splitIndex,
     SplitValue |-> splitValue, Size |-> 0]

IsLeaf(node) == node.Left = Nil /\ node.Right = Nil

\* A feature value in the unit of split values.
Fixed(v) == v * Float64Steps

\* rand.Float64() is u/Float64Steps for a u of this set: [0, 1).
Float64Draws == 0..(Float64Steps - 1)

\* rand.Float64()*(maxValue-minValue) + minValue, in the unit of split values.
SplitValueOf(u, minValue, maxValue) == u * (maxValue - minValue) + Fixed(minValue)

\* A mutation of StopSplitting: the depth test is off by one.
StopSplittingLate(numSamples, depth, maxDepth) ==
    depth > maxDepth \/ numSamples <= 1

\* if depth >= f.MaxDepth || numSamples <= 1
StopSplitting(numSamples, depth, maxDepth) ==
    depth >= maxDepth \/ numSamples <= 1

\* A mutation of GoesLeft: a row equal to the split value goes left.
GoesLeftOrEqual(value, splitValue) == Fixed(value) <= splitValue

\* if vector[splitIndex] < splitValue
GoesLeft(value, splitValue) == Fixed(value) < splitValue

leftSamples(samples, splitIndex, splitValue) ==
    SelectSeq(samples, LAMBDA vector : GoesLeft(vector[splitIndex + 1], splitValue))

rightSamples(samples, splitIndex, splitValue) ==
    SelectSeq(samples, LAMBDA vector : ~GoesLeft(vector[splitIndex + 1], splitValue))

\* Every tree BuildTree(samples, depth) can return, over the outcomes of
\* rand.Intn(numFeatures) and rand.Float64() at each split.
RECURSIVE BuildTree(_, _, _)
BuildTree(samples, depth, maxDepth) ==
    LET numSamples == Len(samples) IN
    IF numSamples = 0 THEN {Leaf(0)}
    ELSE IF StopSplitting(numSamples, depth, maxDepth) THEN {Leaf(numSamples)}
    ELSE
      LET numFeatures == Len(samples[1]) IN
      UNION {
        LET column == Column(samples, splitIndex)
            mm == MinMax(column)
            splitValue == SplitValueOf(u, mm[1], mm[2])
            lefts == BuildTree(leftSamples(samples, splitIndex, splitValue),
                               depth + 1, maxDepth)
            rights == BuildTree(rightSamples(samples, splitIndex, splitValue),
                                depth + 1, maxDepth)
        IN  {Internal(lr[1], lr[2], splitIndex, splitValue) : lr \in lefts \X rights}
        : <<splitIndex, u>> \in (0..(numFeatures - 1)) \X Float64Draws }

RECURSIVE NumInternal(_)
NumInternal(node) ==
    IF IsLeaf(node) THEN 0
    ELSE 1 + NumInternal(node.Left) + NumInternal(node.Right)

\* The caller calls f.BuildTree(samples, 0) itself; each split draws twice
\* from the process-wide source.
CallBuildTree(samples) ==
    /\ pc = "idle"
    /\ \E tree \in BuildTree(samples, 0, Options.MaxDepth) :
          /\ ret' = [op |-> "BuildTree", val |-> tree]
          /\ rng' = Drawn(rng, 2 * NumInternal(tree))
    /\ query' = samples
    /\ pc' = "returned"
    /\ UNCHANGED <<Options, optionsIn, nDefaulted, Trees, matrix, fitI,
                   tasks, wg, fitCount, builtBy, slotWrites, scores, scores2,
                   threshold, snapshot>>

\* The caller is done with what the last call returned (or, after a panic
\* it recovered from, with the panic) and goes on to its next call.
Continue ==
    /\ pc \in {"returned", "panicked"}
    /\ pc' = "idle"
    /\ query' = <<>>
    /\ scores' = <<>>
    /\ scores2' = <<>>
    /\ threshold' = 0
    /\ ret' = NoReturn
    /\ snapshot' = [Options |-> ZeroOptions, Trees |-> Nil]
    /\ IF \A i \in DOMAIN tasks : tasks[i].pc = "done"
       THEN tasks' = <<>> /\ matrix' = <<>> /\ fitI' = 0
       ELSE UNCHANGED <<tasks, matrix, fitI>>
    /\ UNCHANGED <<Options, optionsIn, nDefaulted, Trees, wg, rng, fitCount,
                   builtBy, slotWrites>>

\* The partitions BuildTree is called on directly: empty, or rows of one
\* feature count.
TreeSamples ==
    UNION {Matrices(0, MaxTreeRows, numFeatures, MaxValue) :
              numFeatures \in 1..MaxFeatures}

\* The forests BuildTree is called on: only MaxDepth, set or defaulted from
\* SampleSize, matters to it.
TreeOptions ==
    {o \in CallerOptions :
        o.NumTrees = 1 /\ o.DetectionType = "" /\ o.Threshold = 0}

NextTree ==
    \/ \E options \in TreeOptions : NewWithOptions(options)
    \/ \E samples \in TreeSamples : CallBuildTree(samples)
    \/ Continue

SpecTree == Init /\ [][NextTree]_vars


RECURSIVE Height(_)
Height(node) ==
    IF IsLeaf(node) THEN 0
    ELSE LET l == Height(node.Left)
             r == Height(node.Right)
         IN  1 + (IF l > r THEN l ELSE r)

RECURSIVE LeafSizeSum(_)
LeafSizeSum(node) ==
    IF IsLeaf(node) THEN node.Size
    ELSE LeafSizeSum(node.Left) + LeafSizeSum(node.Right)

\* The rows of a partition strictly below, and at or above, a split value.
RowsBelow(samples, node) ==
    SelectSeq(samples,
              LAMBDA row : row[node.SplitIndex + 1] * Float64Steps < node.SplitValue)

RowsAtOrAbove(samples, node) ==
    SelectSeq(samples,
              LAMBDA row : row[node.SplitIndex + 1] * Float64Steps >= node.SplitValue)

\* The shape of the subtree built for a partition reached at a depth.
RECURSIVE ShapeOK(_, _, _, _)
ShapeOK(node, samples, depth, maxDepth) ==
    /\ depth <= maxDepth
    /\ (node.Left = Nil) <=> (node.Right = Nil)
    /\ (node.Left = Nil) <=> (Len(samples) <= 1 \/ depth >= maxDepth)
    /\ node.Left = Nil => node.Size = Len(samples)
    /\ node.Left # Nil =>
          /\ ShapeOK(node.Left, RowsBelow(samples, node), depth + 1, maxDepth)
          /\ ShapeOK(node.Right, RowsAtOrAbove(samples, node), depth + 1, maxDepth)

\* C9: BuildTree(samples, 0) returns a strict binary tree bounded by MaxDepth.
\* Every node of the returned tree has no child or two; no node is deeper
\* than MaxDepth; a node is a Leaf exactly when its partition has at most one
\* row (none included) or its depth is MaxDepth or more, and then its Size is
\* the partition's row count; no root-to-leaf path has more than MaxDepth
\* internal nodes.
C9_BuildTreeShape ==
    ret.op = "BuildTree" =>
        /\ ShapeOK(ret.val, query, 0, Options.MaxDepth)
        /\ Height(ret.val) <= Options.MaxDepth

\* A returned tree of three rows cut off by MaxDepth = 2: it is two levels
\* deep, one leaf holds two rows that were never split apart and one leaf
\* is empty.
C9_Witness ==
    /\ ret.op = "BuildTree"
    /\ Len(query) = 3
    /\ Options.MaxDepth = 2
    /\ Height(ret.val) = 2
    /\ ~IsLeaf(ret.val.Right)
    /\ ret.val.Left = Leaf(0)
    /\ ret.val.Right.Right = Leaf(2)

\* What one split did with the rows of its partition.
RECURSIVE PartitionOK(_, _)
PartitionOK(node, samples) ==
    /\ LeafSizeSum(node) = Len(samples)
    /\ node.Left # Nil =>
          LET column == [r \in 1..Len(samples) |-> samples[r][node.SplitIndex + 1]]
              lo == SeqMin(column)
              hi == SeqMax(column)
              below == RowsBelow(samples, node)
              above == RowsAtOrAbove(samples, node)
          IN  /\ node.SplitIndex \in 0..(Len(samples[1]) - 1)
              /\ lo * Float64Steps <= node.SplitValue
              /\ node.SplitValue <= hi * Float64Steps
              /\ Len(below) + Len(above) = Len(samples)
              /\ LeafSizeSum(node.Left) = Len(below)
              /\ LeafSizeSum(node.Right) = Len(above)
              /\ lo = hi =>
                    /\ node.SplitValue = lo * Float64Steps
                    /\ node.Left = Leaf(0)
                    /\ LeafSizeSum(node.Right) = Len(samples)
              /\ PartitionOK(node.Left, below)
              /\ PartitionOK(node.Right, above)

\* C10: every split partitions its rows.  At every Internal node the split
\* value lies in [min, max] of the chosen column, the rows strictly below it
\* make up the Left subtree and all the others the Right one, so the leaf
\* Sizes of the tree add up to the rows given to the root; when min = max the
\* split value is min, the Left child is a Leaf of Size 0 and every row is in
\* the Right subtree.
C10_SplitPartitions ==
    ret.op = "BuildTree" => PartitionOK(ret.val, query)

\* A returned tree whose root split a column of three equal values (the
\* degenerate split) and whose Right child then split the same rows on a
\* column that tells them apart.
C10_Witness ==
    /\ ret.op = "BuildTree"
    /\ Len(query) = 3
    /\ ~IsLeaf(ret.val)
    /\ LET column == [r \in 1..3 |-> query[r][ret.val.SplitIndex + 1]]
       IN  SeqMin(column) = SeqMax(column)
    /\ ret.val.Left = Leaf(0)
    /\ ~IsLeaf(ret.val.Right)
    /\ LeafSizeSum(ret.val.Right.Left) >= 1
    /\ LeafSizeSum(ret.val.Right.Right) >= 1


----------------------------------------------------------------------------
(* Fit.                                                                    *)

\* A goroutine Fit has not started yet.
NoTask == [pc |-> "none", index |-> 0, sampled |-> <<>>, tree |-> Nil]

\* A mutation of WgAdd: the counter is armed for one task only.
WgAddOne(numTrees) == 1

\* wg.Add(f.NumTrees)
WgAdd(numTrees) == numTrees

\* make([]*TreeNode, f.NumTrees): NumTrees nil slots.
NewTrees(numTrees) == [i \in 1..numTrees |-> Nil]

\* A mutation of StoreIndex: the closure reads the loop variable instead of
\* its own parameter.
StoreIndexCaptured(index, i) == i

\* go func(index int) { ... f.Trees[index] = tree }(i): the goroutine's own
\* copy of the loop variable.
StoreIndex(index, i) == index

\* A mutation of WaitDone: Fit does not wait.
WaitSkipped(counter) == TRUE

\* wg.Wait() returns when the counter is zero.
WaitDone(counter) == counter = 0

\* Fit is entered: wg.Add and the fresh Trees slice, before the loop.
FitBegin(samples) ==
    /\ pc = "idle"
    /\ fitCount < MaxFits
    /\ wg' = WgAdd(Options.NumTrees)
    /\ Trees' = NewTrees(Options.NumTrees)
    /\ matrix' = samples
    /\ fitI' = 0
    /\ tasks' = [i \in 1..Options.NumTrees |-> NoTask]
    /\ fitCount' = fitCount + 1
    /\ builtBy' = [i \in 1..Options.NumTrees |-> 0]
    /\ slotWrites' = [i \in 1..Options.NumTrees |-> 0]
    /\ pc' = "Fit"
    /\ UNCHANGED <<Options, optionsIn, nDefaulted, rng, callVars>>

\* One iteration of Fit's loop: Sample draws SampleSize rows from the
\* process-wide source and the goroutine is started with them.
FitSpawn ==
    /\ pc = "Fit"
    /\ fitI < Options.NumTrees
    /\ \E sampled \in Sample(matrix, Options.SampleSize) :
          tasks' = [tasks EXCEPT ![fitI + 1] =
                       [pc |-> "ready", index |-> fitI, sampled |-> sampled,
                        tree |-> Nil]]
    /\ rng' = Drawn(rng, Options.SampleSize)
    /\ fitI' = fitI + 1
    /\ UNCHANGED <<Options, optionsIn, nDefaulted, Trees, pc, matrix, wg,
                   fitCount, builtBy, slotWrites, callVars>>

\* Goroutine t: tree := f.BuildTree(sampled, 0).
TaskBuild(t) ==
    /\ t \in DOMAIN tasks
    /\ tasks[t].pc = "ready"
    /\ \E tree \in BuildTree(tasks[t].sampled, 0, Options.MaxDepth) :
          /\ tasks' = [tasks EXCEPT ![t].pc = "built", ![t].tree = tree]
          /\ rng' = Drawn(rng, 2 * NumInternal(tree))
    /\ UNCHANGED <<Options, optionsIn, nDefaulted, Trees, pc, matrix, fitI,
                   wg, fitCount, builtBy, slotWrites, callVars>>

\* Goroutine t: f.Trees[index] = tree, then the deferred wg.Done(), and the
\* goroutine is over (its locals are gone).  A write outside the slice panics
\* and writes nothing.
TaskStore(t) ==
    /\ t \in DOMAIN tasks
    /\ tasks[t].pc = "built"
    /\ LET slot == StoreIndex(tasks[t].index, fitI) + 1 IN
          IF slot \in DOMAIN Trees
          THEN /\ Trees' = [Trees EXCEPT ![slot] = tasks[t].tree]
               /\ builtBy' = [builtBy EXCEPT ![slot] = fitCount]
               /\ slotWrites' = [slotWrites EXCEPT ![slot] = @ + 1]
          ELSE UNCHANGED <<Trees, builtBy, slotWrites>>
    /\ tasks' = [tasks EXCEPT ![t] =
                    [NoTask EXCEPT !.pc = "done", !.index = tasks[t].index]]
    /\ wg' = wg - 1
    /\ UNCHANGED <<Options, optionsIn, nDefaulted, pc, matrix, fitI, rng,
                   fitCount, callVars>>

\* The loop is over and wg.Wait() lets Fit return.
FitReturn ==
    /\ pc = "Fit"
    /\ ~(fitI < Options.NumTrees)
    /\ WaitDone(wg)
    /\ pc' = "returned"
    /\ ret' = [op |-> "Fit", val |-> <<>>]
    /\ UNCHANGED <<Options, optionsIn, nDefaulted, fitVars, query, scores,
                   scores2, threshold, snapshot>>

\* The training matrices: one feature, one row or more.
TrainingMatrices == Matrices(1, MaxRows, 1, MaxValue)

\* The forests Fit alone is run on: the decision policy does not matter to
\* it.
FitOptions ==
    {o \in CallerOptions : o.DetectionType = "" /\ o.Threshold = 0}

NextFit ==
    \/ \E options \in FitOptions : NewWithOptions(options)
    \/ \E samples \in TrainingMatrices : FitBegin(samples)
    \/ FitSpawn
    \/ \E t \in 1..MaxNumTrees : TaskBuild(t)
    \/ \E t \in 1..MaxNumTrees : TaskStore(t)
    \/ FitReturn
    \/ Continue

SpecFit == Init /\ [][NextFit]_vars


\* Some slot of Trees is still absent.
Incomplete == \E j \in DOMAIN Trees : Trees[j] = Nil

\* Some slots of Trees are filled while others are still absent.
PartlyBuilt ==
    /\ Incomplete
    /\ \E i \in DOMAIN Trees : Trees[i] # Nil

\* C1: after Fit returns, Trees is the ensemble of that call.  Whenever the
\* caller is outside Fit after one or more Fit calls, Trees has exactly
\* NumTrees entries, none of them absent, and each was written by a task of
\* the most recent Fit call.
C1_FitReplacesTrees ==
    (fitCount >= 1 /\ pc # "Fit") =>
        /\ Len(Trees) = Options.NumTrees
        /\ \A i \in 1..Options.NumTrees :
              /\ Trees[i] # Nil
              /\ builtBy[i] = fitCount

\* The second Fit of a forest of two trees has just returned.
C1_Witness ==
    /\ pc = "returned" /\ ret.op = "Fit"
    /\ fitCount = 2
    /\ Options.NumTrees = 2
    /\ Len(Trees) = 2 /\ Trees[1] # Nil /\ Trees[2] # Nil
    /\ builtBy = <<2, 2>>

\* C2 as claimed: Fit returns only when every build task is done, and in no
\* state does Trees hold an ensemble of which some slots are filled and
\* others still absent.
C2_NoPartialTrees ==
    /\ (fitCount >= 1 /\ pc # "Fit") =>
          \A t \in DOMAIN tasks : tasks[t].pc = "done"
    /\ ~PartlyBuilt

\* C2, amended: a partial ensemble exists only while the caller is blocked
\* inside Fit.  Whenever a build task has not finished or a slot of Trees is
\* absent, the caller is still inside Fit: the field f.Trees itself is filled
\* in place, slot by slot, but Fit does not return before it is complete.
C2_PartialOnlyInsideFit ==
    /\ (\E t \in DOMAIN tasks : tasks[t].pc # "done") => pc = "Fit"
    /\ Incomplete => pc = "Fit"

\* The second Fit of a forest of two trees, every goroutine started and the
\* caller waiting: one slot holds its new tree, the other is still absent,
\* and the trees of the first Fit are gone.
C2_Witness ==
    /\ pc = "Fit"
    /\ fitCount = 2
    /\ Options.NumTrees = 2
    /\ fitI = 2
    /\ PartlyBuilt
    /\ wg = 1

\* A step of goroutine t of the running Fit.
TaskStep(t) ==
    /\ t \in DOMAIN tasks
    /\ tasks[t].pc \in {"ready", "built"}
    /\ t \in DOMAIN tasks'
    /\ tasks'[t] # tasks[t]

\* What a step of goroutine t leaves alone in the forest and in Fit: every
\* slot of Trees but its own, every other goroutine, the Options, the
\* training matrix and the loop variable.
TaskKeepsToItsSlot(t) ==
    /\ DOMAIN Trees' = DOMAIN Trees
    /\ \A j \in DOMAIN Trees : j # t => Trees'[j] = Trees[j]
    /\ \A u \in DOMAIN tasks : u # t => tasks'[u] = tasks[u]
    /\ Options' = Options
    /\ matrix' = matrix
    /\ fitI' = fitI

\* No slot is written twice, and when Fit returns every slot was written once.
SlotsWrittenOnce ==
    \A i \in DOMAIN slotWrites :
        /\ slotWrites[i] <= 1
        /\ (pc = "returned" /\ ret.op = "Fit") => slotWrites[i] = 1

\* C3 as claimed: goroutine i writes slot i only, once, and the goroutines
\* share no other mutable state: besides its slot, its own locals and the
\* WaitGroup it joins on, a goroutine's step changes nothing.
C3_TasksShareOnlySlots ==
    [][/\ \A t \in 1..MaxNumTrees :
             TaskStep(t) => (TaskKeepsToItsSlot(t) /\ rng' = rng)
       /\ SlotsWrittenOnce']_vars

\* C3, amended: goroutine i writes slot i only, once, and the only other
\* mutable state the goroutines share is the process-wide random source.
\* Besides its slot, its own locals and the WaitGroup it joins on, a
\* goroutine's step changes nothing but the position of the math/rand source
\* BuildTree draws from (rand.Intn, rand.Float64), which does its own
\* locking.
C3_TasksWriteOwnSlotOnce ==
    [][/\ \A t \in 1..MaxNumTrees : TaskStep(t) => TaskKeepsToItsSlot(t)
       /\ SlotsWrittenOnce']_vars

\* Two goroutines out of order: the second has stored a tree with a split in
\* it (so it drew from the random source) while the first has yet to build.
C3_Witness ==
    /\ pc = "Fit"
    /\ Options.NumTrees = 2
    /\ DOMAIN tasks = {1, 2}
    /\ tasks[1].pc = "ready" /\ tasks[2].pc = "done"
    /\ Trees[1] = Nil /\ Trees[2] # Nil
    /\ NumInternal(Trees[2]) >= 1
    /\ slotWrites = <<0, 1>>


----------------------------------------------------------------------------
(* Score.                                                                  *)

\* Euler's constant and the natural logarithms of 1, 2, 3, ..., in
\* thousandths.
EulerMilli == 577

LnMilli == <<0, 693, 1099, 1386, 1609, 1792, 1946, 2079>>

\* averagePathLength(n) = c(n), in thousandths: 0 for n <= 1, 1 for n = 2,
\* 2(ln(n-1) + gamma) - 2(n-1)/n otherwise.
averagePathLength(n) ==
    IF n <= 1 THEN 0
    ELSE IF n = 2 THEN Milli
    ELSE 2 * (LnMilli[n - 1] + EulerMilli) - (2 * Milli * (n - 1)) \div n

\* pathLength(vector, node, depth), in thousandths: Left when
\* vector[SplitIndex] < SplitValue, else Right; depth + c(Size) at a Leaf.
RECURSIVE pathLength(_, _, _)
pathLength(vector, node, depth) ==
    IF IsLeaf(node) THEN depth * Milli + averagePathLength(node.Size)
    ELSE IF Fixed(vector[node.SplitIndex + 1]) < node.SplitValue
         THEN pathLength(vector, node.Left, depth + 1)
         ELSE pathLength(vector, node.Right, depth + 1)

\* 2^(-k/4) for k = 0..3, in thousandths.
Pow2Frac == <<1000, 841, 707, 595>>

ExpSteps == Len(Pow2Frac)

\* math.Pow(2.0, -e/ExpSteps), in thousandths.
Pow2Neg(e) == Pow2Frac[(e % ExpSteps) + 1] \div Pow2(e \div ExpSteps)

\* math.Pow(2.0, -score/float64(len(f.Trees))/averagePathLength(float64(f.SampleSize)))
\* in float64 arithmetic: -0/0 is NaN, NaN/c is NaN, -x/0 is -Inf for x > 0,
\* Pow(2, NaN) is NaN and Pow(2, -Inf) is 0.
ScoreValue(sum, numTrees, c) ==
    IF numTrees = 0 \/ (c = 0 /\ sum = 0) THEN NaN
    ELSE IF c = 0 THEN 0
    ELSE Pow2Neg((sum * ExpSteps) \div (numTrees * c))

\* The inner loop: score += pathLength(sample, tree, 0) over f.Trees.
RECURSIVE SumPathLength(_, _, _)
SumPathLength(sample, trees, k) ==
    IF k = 0 THEN 0
    ELSE SumPathLength(sample, trees, k - 1) + pathLength(sample, trees[k], 0)

\* func (f *IsolationForest) Score(samples [][]float64) []float64
Score(trees, options, samples) ==
    [i \in 1..Len(samples) |->
        ScoreValue(SumPathLength(samples[i], trees, Len(trees)), Len(trees),
                   averagePathLength(options.SampleSize))]

\* The caller calls f.Score(samples).
CallScore(samples) ==
    /\ pc = "idle"
    /\ query' = samples
    /\ ret' = [op |-> "Score", val |-> Score(Trees, Options, samples)]
    /\ pc' = "returned"
    /\ UNCHANGED <<Options, optionsIn, nDefaulted, fitVars, scores, scores2,
                   threshold, snapshot>>

----------------------------------------------------------------------------
(* Predict.                                                                *)

\* Quantile(scores, q), q in thousandths, by nearest rank: the value of rank
\* ceil(q * n) among the sorted scores, the first for q = 0.
Quantile(numbers, q) ==
    LET n == Len(numbers)
        r == (q * n + Milli - 1) \div Milli
        rank == IF r < 1 THEN 1 ELSE IF r > n THEN n ELSE r
        AtMost(v) == Cardinality({i \in 1..n : numbers[i] <= v})
        Below(v) == Cardinality({i \in 1..n : numbers[i] < v})
    IN  CHOOSE v \in {numbers[i] : i \in 1..n} : Below(v) < rank /\ rank <= AtMost(v)

\* A mutation of Panics: an unknown DetectionType is let through.
PanicsNever(detectionType) == FALSE

\* default: panic("Invalid detection type")
Panics(detectionType) ==
    detectionType \notin {DetectionTypeThreshold, DetectionTypeProportion}

\* A mutation of PolicyThreshold: the quantile is taken at Proportion instead
\* of 1 - Proportion.
PolicyThresholdAtProportion(options, batchScores) ==
    IF options.DetectionType = DetectionTypeProportion
    THEN Quantile(batchScores, options.Proportion)
    ELSE options.Threshold

\* The switch of Predict: f.Threshold, or Quantile(f.Score(samples), 1-f.Proportion).
PolicyThreshold(options, batchScores) ==
    IF options.DetectionType = DetectionTypeProportion
    THEN Quantile(batchScores, Milli - options.Proportion)
    ELSE options.Threshold

\* A mutation of Anomalous: a score equal to the threshold is not flagged.
AnomalousStrict(score, limit) == ~IsNaN(score) /\ ~IsNaN(limit) /\ score > limit

\* if score >= threshold
Anomalous(score, limit) == FloatGE(score, limit)

\* Predict is entered: predictions is allocated and the batch is scored.
\* Under the Proportion policy the batch has a row: Quantile of no scores is
\* not defined.
PredictScore(samples) ==
    /\ pc = "idle"
    /\ Options.DetectionType = DetectionTypeProportion => Len(samples) >= 1
    /\ query' = samples
    /\ scores' = Score(Trees, Options, samples)
    /\ snapshot' = [Options |-> Options, Trees |-> Trees]
    /\ pc' = "Predict_switch"
    /\ UNCHANGED <<Options, optionsIn, nDefaulted, fitVars, scores2,
                   threshold, ret>>

\* The switch on f.DetectionType: the threshold of the policy (under
\* Proportion from a second scoring of the batch), or the panic.
PredictSwitch ==
    /\ pc = "Predict_switch"
    /\ IF Panics(Options.DetectionType)
       THEN /\ pc' = "panicked"
            /\ UNCHANGED <<scores2, threshold>>
       ELSE /\ scores2' = IF Options.DetectionType = DetectionTypeProportion
                          THEN Score(Trees, Options, query) ELSE <<>>
            /\ threshold' = PolicyThreshold(Options, scores2')
            /\ pc' = "Predict_loop"
    /\ UNCHANGED <<Options, optionsIn, nDefaulted, fitVars, query, scores,
                   ret, snapshot>>

\* The loop over scores, and the return of predictions.
PredictLoop ==
    /\ pc = "Predict_loop"
    /\ ret' = [op |-> "Predict",
               val |-> [i \in 1..Len(scores) |->
                           IF Anomalous(scores[i], threshold) THEN 1 ELSE 0]]
    /\ pc' = "returned"
    /\ UNCHANGED <<Options, optionsIn, nDefaulted, fitVars, query, scores,
                   scores2, threshold, snapshot>>

\* The query batches: none, one or more rows of one feature.
QueryBatches == Matrices(0, MaxQueryRows, 1, MaxValue)

Next ==
    \/ \E options \in CallerOptions : NewWithOptions(options)
    \/ \E samples \in TrainingMatrices : FitBegin(samples)
    \/ FitSpawn
    \/ \E t \in 1..MaxNumTrees : TaskBuild(t)
    \/ \E t \in 1..MaxNumTrees : TaskStore(t)
    \/ FitReturn
    \/ \E samples \in QueryBatches : CallScore(samples)
    \/ \E samples \in QueryBatches : PredictScore(samples)
    \/ PredictSwitch
    \/ PredictLoop
    \/ Continue

Spec == Init /\ [][Next]_vars


\* What Score returns for the batch of the last call, on the forest as it is.
BatchScores == Score(Trees, Options, query)

\* C4: the Threshold policy flags exactly the scores at or above Threshold.
\* When Predict returns under the Threshold policy, it returns one entry per
\* query row, in order, and entry i is 1 if Score's value for row i is a
\* number >= Options.Threshold (equality included) and 0 otherwise.
C4_ThresholdPolicy ==
    (ret.op = "Predict" /\ Options.DetectionType = DetectionTypeThreshold) =>
        /\ Len(ret.val) = Len(query)
        /\ \A i \in 1..Len(query) :
              ret.val[i] = IF /\ BatchScores[i] # NaN
                              /\ BatchScores[i] >= Options.Threshold
                           THEN 1 ELSE 0

\* A fitted forest predicts two rows under the Threshold policy: one scores
\* exactly the threshold and is flagged, the other scores less and is not.
C4_Witness ==
    /\ ret.op = "Predict"
    /\ Options.DetectionType = DetectionTypeThreshold
    /\ fitCount >= 1
    /\ Len(query) = 2
    /\ \E i, j \in 1..2 :
          /\ BatchScores[i] = Options.Threshold /\ ret.val[i] = 1
          /\ BatchScores[j] # NaN /\ BatchScores[j] < Options.Threshold
          /\ ret.val[j] = 0

\* C5: the Proportion policy takes its threshold from the batch it predicts.
\* When Predict returns under the Proportion policy, its second scoring pass
\* gave the scores of the first, which are Score's values for the query
\* batch; the threshold is Quantile of those scores at 1 - Proportion; and
\* entry i of the result is 1 exactly when the score of row i is a number >=
\* that threshold.
C5_ProportionPolicy ==
    (ret.op = "Predict" /\ Options.DetectionType = DetectionTypeProportion) =>
        /\ scores = BatchScores
        /\ scores2 = scores
        /\ threshold = Quantile(BatchScores, Milli - Options.Proportion)
        /\ Len(ret.val) = Len(query)
        /\ \A i \in 1..Len(query) :
              ret.val[i] = 1 <=>
                 (BatchScores[i] # NaN /\ threshold # NaN
                    /\ BatchScores[i] >= threshold)

\* A fitted forest predicts two rows of different scores under the
\* Proportion policy: the higher score is the threshold and the only row
\* flagged.
C5_Witness ==
    /\ ret.op = "Predict"
    /\ Options.DetectionType = DetectionTypeProportion
    /\ fitCount >= 1
    /\ Len(query) = 2
    /\ scores[1] # NaN /\ scores[2] # NaN
    /\ scores[1] < scores[2]
    /\ threshold = scores[2]
    /\ ret.val = <<0, 1>>

\* C6: an unknown DetectionType makes Predict panic and nothing else.  When
\* Predict has panicked, the DetectionType names no policy, nothing was
\* returned, and Trees and Options are as they were when Predict was
\* entered; and Predict never reaches its loop, nor returns, with a
\* DetectionType that names no policy.
C6_InvalidTypePanics ==
    /\ pc = "panicked" =>
          /\ Options.DetectionType \notin
                {DetectionTypeThreshold, DetectionTypeProportion}
          /\ ret = NoReturn
          /\ Trees = snapshot.Trees
          /\ Options = snapshot.Options
    /\ (pc = "Predict_loop" \/ ret.op = "Predict") =>
          Options.DetectionType \in
             {DetectionTypeThreshold, DetectionTypeProportion}

\* Predict has panicked on a batch of two rows, on a fitted forest of two
\* trees, which are still there.
C6_Witness ==
    /\ pc = "panicked"
    /\ fitCount >= 1
    /\ Len(Trees) = 2 /\ Trees[1] # Nil /\ Trees[2] # Nil
    /\ Len(query) = 2
    /\ Len(scores) = 2

\* C8 as claimed: Score of a fitted forest returns one value per query row,
\* each in the range (0, 1].
C8_ScoreInRange ==
    (ret.op = "Score" /\ fitCount >= 1) =>
        /\ Len(ret.val) = Len(query)
        /\ \A i \in 1..Len(query) : 0 < ret.val[i] /\ ret.val[i] <= Milli

=============================================================================
